---------------------------- MODULE Spec2Model ----------------------------
(***************************************************************************)
(* A model of LeGarbage/battleshipy: the BattleshipGame object             *)
(* (battleship_game.py) and the two drivers that play it over one socket   *)
(* (server.py, client.py).                                                 *)
(*                                                                         *)
(* Python strings are sequences of one-character strings, so that         *)
(* indexing, slicing, equality and the substring test are computed as the  *)
(* code computes them.  The character U+00B2 (SUPERSCRIPT TWO), for which  *)
(* str.isdigit() is True and int() raises ValueError, is written "sup2".   *)
(***************************************************************************)
EXTENDS Integers, Sequences, FiniteSets, TLC

(***************************************************************************)
(* Program constants.                                                      *)
(***************************************************************************)
BoardSize == 10

MaxAttempts == 100

(***************************************************************************)
(* Bounds of the model.                                                    *)
(*   MaxSkip  the harness of SpecGame fires at one of the first            *)
(*            MaxSkip + 1 targets of its plan not yet fired at (the        *)
(*            players of Spec fire at the first);                          *)
(*   MaxChan  messages a socket buffer holds before send() blocks.         *)
(***************************************************************************)
MaxSkip == 1

MaxChan == 2

(***************************************************************************)
(* Characters and the str/int builtins the code uses.                      *)
(***************************************************************************)
UpperCase ==
    << "A", "B", "C", "D", "E", "F", "G", "H", "I", "J", "K", "L", "M",
       "N", "O", "P", "Q", "R", "S", "T", "U", "V", "W", "X", "Y", "Z" >>

LowerCase ==
    << "a", "b", "c", "d", "e", "f", "g", "h", "i", "j", "k", "l", "m",
       "n", "o", "p", "q", "r", "s", "t", "u", "v", "w", "x", "y", "z" >>

DecimalDigits == << "0", "1", "2", "3", "4", "5", "6", "7", "8", "9" >>

Range(s) == { s[i] : i \in 1..Len(s) }

UpperSet == Range(UpperCase)

LowerSet == Range(LowerCase)

DecimalSet == Range(DecimalDigits)

\* str.isalpha() of one character.
isalpha(c) == c \in UpperSet \/ c \in LowerSet

\* The characters int() reads as decimal digits.
isdecimal(c) == c \in DecimalSet

\* str.isdigit() of one character: the decimal digits and the digit-valued
\* characters such as the superscripts, which int() rejects.
isdigit(c) == isdecimal(c) \/ c = "sup2"

isspace(c) == c \in { " ", "\n", "\t" }

\* The value of a decimal digit.
DigitValue ==
    [ c \in DecimalSet |-> (CHOOSE i \in 1..10 : DecimalDigits[i] = c) - 1 ]

\* str.upper() of one character, for the lower-case letters.
UpperOf ==
    [ c \in LowerSet |-> UpperCase[CHOOSE i \in 1..26 : LowerCase[i] = c] ]

upper(c) == IF c \in LowerSet THEN UpperOf[c] ELSE c

\* ord() of the characters of the model's alphabet.
OrdOf ==
    [ c \in UpperSet |-> 64 + (CHOOSE i \in 1..26 : UpperCase[i] = c) ]
      @@ [ c \in LowerSet |-> 96 + (CHOOSE i \in 1..26 : LowerCase[i] = c) ]
      @@ [ c \in DecimalSet |-> 48 + DigitValue[c] ]
      @@ ( "\t" :> 9 @@ "\n" :> 10 @@ " " :> 32 @@ "!" :> 33 @@ "(" :> 40
           @@ ")" :> 41 @@ "+" :> 43 @@ "-" :> 45 @@ "." :> 46 @@ "@" :> 64
           @@ "sup2" :> 178 )

ord(c) == OrdOf[c]

RECURSIVE lstrip(_)
lstrip(s) == IF s # << >> /\ isspace(Head(s)) THEN lstrip(Tail(s)) ELSE s

RECURSIVE rstrip(_)
rstrip(s) ==
    IF s # << >> /\ isspace(s[Len(s)])
    THEN rstrip(SubSeq(s, 1, Len(s) - 1))
    ELSE s

RECURSIVE DecimalValue(_)
DecimalValue(s) ==
    IF s = << >> THEN 0
    ELSE 10 * DecimalValue(SubSeq(s, 1, Len(s) - 1))
         + DigitValue[s[Len(s)]]

\* int(s): surrounding whitespace is dropped, one sign is allowed, and the
\* rest must be one or more decimal digits; otherwise ValueError (ok FALSE).
int(s) ==
    LET t      == rstrip(lstrip(s))
        signed == t # << >> /\ Head(t) \in { "+", "-" }
        body   == IF signed THEN Tail(t) ELSE t
        ok     == body # << >> /\ \A i \in 1..Len(body) : isdecimal(body[i])
        v      == IF ok THEN DecimalValue(body) ELSE 0
    IN  [ ok |-> ok,
          value |-> IF signed /\ Head(t) = "-" THEN 0 - v ELSE v ]

\* needle in haystack, for strings.
Contains(haystack, needle) ==
    \E i \in 1..(Len(haystack) - Len(needle) + 1) :
        SubSeq(haystack, i, i + Len(needle) - 1) = needle

(***************************************************************************)
(* The strings of the protocol.                                            *)
(***************************************************************************)
EMPTY == << >>

INVALID == << "i", "n", "v", "a", "l", "i", "d" >>

REPEAT == << "r", "e", "p", "e", "a", "t" >>

MISS == << "m", "i", "s", "s" >>

HIT == << "h", "i", "t" >>

SUNK == << "s", "u", "n", "k" >>

HIT_SUNK == << "h", "i", "t", "\n", "s", "u", "n", "k" >>

GAMEOVER == << "g", "a", "m", "e", "o", "v", "e", "r" >>

READY == << "r", "e", "a", "d", "y" >>

\* "Invalid move format! Use letter + number (e.g. A5)"
FORMAT_MESSAGE ==
    << "I", "n", "v", "a", "l", "i", "d", " ", "m", "o", "v", "e", " ",
       "f", "o", "r", "m", "a", "t", "!", " ", "U", "s", "e", " ", "l", "e",
       "t", "t", "e", "r", " ", "+", " ", "n", "u", "m", "b", "e", "r", " ",
       "(", "e", ".", "g", ".", " ", "A", "5", ")" >>

(***************************************************************************)
(* BattleshipGame.                                                         *)
(***************************************************************************)
\* self.ships, in the dict's (insertion) order.
ShipNames == << "Carrier", "Battleship", "Cruiser", "Submarine", "Destroyer" >>

ships ==
    [ s \in Range(ShipNames) |->
        CASE s = "Carrier"    -> 5
          [] s = "Battleship" -> 4
          [] s = "Cruiser"    -> 3
          [] s = "Submarine"  -> 3
          [] s = "Destroyer"  -> 2 ]

Index == 0..(BoardSize - 1)

\* A coordinate is <<col, row>>.
Coord(col, row) == << col, row >>

\* self.board is kept as the function from the coordinates of its marked
\* cells to their marks; every other cell of the 10 x 10 grid holds ' '.
EmptyBoard == [ c \in {} |-> " " ]

\* board[row][col]
Cell(board, row, col) ==
    IF Coord(col, row) \in DOMAIN board THEN board[Coord(col, row)] ELSE " "

\* board[col][row] = mark: the indices exchanged.
MarkedTransposed(board, row, col, mark) ==
    [ c \in DOMAIN board \cup { Coord(row, col) } |->
        IF c = Coord(row, col) THEN mark ELSE board[c] ]

\* board[row][col] = mark
Marked(board, row, col, mark) ==
    [ c \in DOMAIN board \cup { Coord(col, row) } |->
        IF c = Coord(col, row) THEN mark ELSE board[c] ]

\* BattleshipGame.__init__
NewGame ==
    [ board          |-> EmptyBoard,
      opponent_shots |-> {},
      ship_positions |-> [ s \in Range(ShipNames) |-> {} ],
      sunk_ships     |-> {},
      shots          |-> {},
      hits           |-> {} ]

\* Every coordinate some ship holds:
\* [p for ship_pos in self.ship_positions.values() for p in ship_pos]
Occupied(g) == UNION { g.ship_positions[s] : s \in Range(ShipNames) }

(***************************************************************************)
(* The random module.  A generator is one of a few streams of draws, read  *)
(* cyclically; one attempt of place_ships_randomly reads one draw: the     *)
(* random.choice and the two random.randint calls.  randint(0, hi) of a    *)
(* raw value is raw % (hi + 1).                                            *)
(***************************************************************************)
Hz(a, b) == [ horizontal |-> TRUE, a |-> a, b |-> b ]

Vt(a, b) == [ horizontal |-> FALSE, a |-> a, b |-> b ]

RandomStreams ==
    << \* every ship placed at its first attempt
       << Hz(0, 0), Vt(0, 1), Hz(1, 1), Vt(1, 2), Hz(2, 2) >>,
       \* collisions, then every ship placed; raw values beyond the ranges
       << Vt(10, 6), Hz(0, 0), Hz(8, 10), Vt(1, 0), Vt(11, 9), Hz(10, 11),
          Vt(12, 11) >>,
       \* the Destroyer collides in each of its attempts
       << Hz(0, 0), Hz(0, 1), Hz(0, 2), Hz(0, 3) >> >>

Seeds == 1..Len(RandomStreams)

Draw(seed, n) ==
    RandomStreams[seed][(n % Len(RandomStreams[seed])) + 1]

\* A randint that does not keep to its range.
randint_unbounded(hi, raw) == raw

randint(hi, raw) == raw % (hi + 1)

\* positions, lines 123-131
Positions(size, d) ==
    IF d.horizontal
    THEN LET x == randint(BoardSize - size, d.a)
             y == randint(BoardSize - 1, d.b)
         IN  { Coord(x + i, y) : i \in 0..(size - 1) }
    ELSE LET x == randint(BoardSize - 1, d.a)
             y == randint(BoardSize - size, d.b)
         IN  { Coord(x, y + i) : i \in 0..(size - 1) }

\* lines 135-137
PutShip(g, ship, positions) ==
    [ g EXCEPT
        !.board = [ c \in DOMAIN @ \cup positions |->
                      IF c \in positions THEN "S" ELSE @[c] ],
        !.ship_positions[ship] = @ \cup positions ]

\* The attempts (numbered from 0) of the while loop for `ship` that find a
\* free position, when the n-th draw of the stream is the first it reads.
FreeAttempts(g, seed, ship, n) ==
    { k \in 0..(MaxAttempts - 1) :
        Positions(ships[ship], Draw(seed, n + k)) \cap Occupied(g) = {} }

Min(S) == CHOOSE k \in S : \A j \in S : k <= j

\* The for loop of place_ships_randomly from ship number i on, n draws read:
\* the while loop places the ship at its first free attempt and breaks, or
\* ends with the ship unplaced after MaxAttempts attempts.
RECURSIVE PlaceFrom(_, _, _, _)
PlaceFrom(g, seed, i, n) ==
    IF i > Len(ShipNames) THEN g
    ELSE LET ship == ShipNames[i]
             free == FreeAttempts(g, seed, ship, n)
         IN  IF free = {}
             THEN PlaceFrom(g, seed, i + 1, n + MaxAttempts)
             ELSE PlaceFrom(
                      PutShip(g, ship,
                              Positions(ships[ship], Draw(seed, n + Min(free)))),
                      seed, i + 1, n + Min(free) + 1)

place_ships_randomly(g, seed) == PlaceFrom(g, seed, 1, 0)

\* check_ship_sunk from ship number i on: the game and the message.
RECURSIVE SunkFrom(_, _, _)
SunkFrom(g, hit_pos, i) ==
    IF i > Len(ShipNames) THEN [ game |-> g, message |-> EMPTY ]
    ELSE LET ship      == ShipNames[i]
             positions == g.ship_positions[ship]
         IN  IF /\ hit_pos \in positions
                /\ ship \notin g.sunk_ships
                /\ positions \subseteq g.opponent_shots
             THEN [ game    |-> [ g EXCEPT !.sunk_ships = @ \cup { ship } ],
                    message |-> << "Sunk ", ship, "!" >> ]
             ELSE SunkFrom(g, hit_pos, i + 1)

\* check_ship_sunk with any() for all() at line 148: a ship counts as sunk
\* at its first hit.
check_ship_sunk_any(g, hit_pos) ==
    LET struck == { s \in Range(ShipNames) :
                      hit_pos \in g.ship_positions[s] /\ s \notin g.sunk_ships }
    IN  IF struck = {} THEN [ game |-> g, message |-> EMPTY ]
        ELSE [ game    |-> [ g EXCEPT !.sunk_ships = @ \cup struck ],
               message |-> << "Sunk ", CHOOSE s \in struck : TRUE, "!" >> ]

\* check_ship_sunk without line 149: the message, and sunk_ships as it was.
check_ship_sunk_unrecorded(g, hit_pos) ==
    [ game |-> g, message |-> SunkFrom(g, hit_pos, 1).message ]

check_ship_sunk(g, hit_pos) == SunkFrom(g, hit_pos, 1)

\* Lines 162-163: the column and the row of a move, or the exception.
Decode(move) ==
    IF move = EMPTY THEN [ ok |-> FALSE, col |-> 0, row |-> 0 ]  \* IndexError
    ELSE LET r == int(Tail(move))
         IN  [ ok  |-> r.ok,                                     \* ValueError
               col |-> ord(upper(move[1])) - ord("A"),
               row |-> r.value ]

\* Line 165 with "<= self.board_size": the bound is off by one.
InBoundsOffByOne(col, row) ==
    0 <= col /\ col <= BoardSize /\ 0 <= row /\ row <= BoardSize

\* Line 165
InBounds(col, row) ==
    0 <= col /\ col < BoardSize /\ 0 <= row /\ row < BoardSize

\* Line 168 reading self.shots, the player's own shots.
AlreadyShotOwn(g, col, row) == Coord(col, row) \in g.shots

\* Line 168
AlreadyShot(g, col, row) == Coord(col, row) \in g.opponent_shots

\* Line 179 counting the placed ships only.
AllSunkPlaced(g) ==
    g.sunk_ships = { s \in Range(ShipNames) : g.ship_positions[s] # {} }

\* Line 179: len(self.sunk_ships) == len(self.ships)
AllSunk(g) == Cardinality(g.sunk_ships) = Len(ShipNames)

\* The hit branch, lines 176-184.
ShotHit(g, col, row) ==
    LET marked == [ g EXCEPT !.board = Marked(@, row, col, "H") ]
        sunk   == check_ship_sunk(marked, Coord(col, row))
    IN  [ game   |-> sunk.game,
          result |-> IF AllSunk(sunk.game)
                     THEN GAMEOVER
                     ELSE IF sunk.message # EMPTY THEN HIT_SUNK ELSE HIT ]

\* process_shot: the game after the call and the string returned.
process_shot(g, move) ==
    LET d == Decode(move)
    IN  IF ~d.ok THEN [ game |-> g, result |-> FORMAT_MESSAGE ]
        ELSE IF ~InBounds(d.col, d.row) THEN [ game |-> g, result |-> INVALID ]
        ELSE IF AlreadyShot(g, d.col, d.row)
        THEN [ game |-> g, result |-> REPEAT ]
        ELSE LET shot == [ g EXCEPT !.opponent_shots =
                                        @ \cup { Coord(d.col, d.row) } ]
             IN  IF Coord(d.col, d.row) \in Occupied(shot)
                 THEN ShotHit(shot, d.col, d.row)
                 ELSE [ game   |-> [ shot EXCEPT
                                       !.board = Marked(@, d.row, d.col, "M") ],
                        result |-> MISS ]

\* validate_move
validate_move(move) ==
    /\ Len(move) >= 2
    /\ isalpha(move[1])
    /\ \A i \in 2..Len(move) : isdigit(move[i])

\* handle_opponent_move: process_shot and prints.
handle_opponent_move(g, move) == process_shot(g, move)

(***************************************************************************)
(* State.                                                                  *)
(*   Two processes, "server" (server.py) and "client" (client.py), each    *)
(*   with its BattleshipGame, its locals and its end of the socket.  A     *)
(*   message in flight is [kind, text]: the receiver reads the text only;  *)
(*   the kind records what the sender sent it as.                          *)
(*   unit, ret: one BattleshipGame driven call by call, and the string the *)
(*   last process_shot call returned (SpecGame).                           *)
(***************************************************************************)
VARIABLES
    pc,        \* where each process is
    game,      \* its BattleshipGame
    my_turn,   \* its my_turn
    move,      \* the move it last sent
    data,      \* the opponent's move it last received
    result,    \* its result / response
    inbox,     \* the messages sent to it and not yet received
    closed,    \* whether it has closed its socket
    rng,       \* the stream its random module reads
    answered,  \* outcome messages it sent for data: 0, 1, or 2 for more
    plan,      \* the order in which its player fires (and the harness's)
    unit,
    ret

vars ==
    << pc, game, my_turn, move, data, result, inbox, closed, rng, answered,
       plan, unit, ret >>

protocolVars ==
    << pc, game, my_turn, move, data, result, inbox, closed, rng, answered >>

Peers == { "server", "client" }

Other(p) == IF p = "server" THEN "client" ELSE "server"

\* server.py up to accept() returning, client.py up to connect() returning.
InitProtocol(seedServer, seedClient) ==
    /\ pc = [ p \in Peers |-> IF p = "server" THEN "accept" ELSE "connect" ]
    /\ game = [ p \in Peers |-> NewGame ]
    /\ my_turn = [ p \in Peers |-> FALSE ]
    /\ move = [ p \in Peers |-> EMPTY ]
    /\ data = [ p \in Peers |-> EMPTY ]
    /\ result = [ p \in Peers |-> EMPTY ]
    /\ inbox = [ p \in Peers |-> << >> ]
    /\ closed = [ p \in Peers |-> FALSE ]
    /\ rng = [ p \in Peers |-> IF p = "server" THEN seedServer ELSE seedClient ]
    /\ answered = [ p \in Peers |-> 0 ]

(***************************************************************************)
(* The players.  A player fires at the coordinates of TargetCoords in the  *)
(* order of a plan, and now and then types something else.                *)
(***************************************************************************)
\* The move string of an in-bounds coordinate.
CoordMove(c) == << UpperCase[c[1] + 1], DecimalDigits[c[2] + 1] >>

Fleet(seed) == place_ships_randomly(NewGame, seed)

Fleets == [ seed \in Seeds |-> Fleet(seed) ]

\* Every ship of every fleet, and J9.
TargetCoords ==
    UNION { Occupied(Fleets[seed]) : seed \in Seeds } \cup { Coord(9, 9) }

\* Plans: by rows, by columns from the right, by diagonals.
Plans == 1..3

PlanKey(k, c) ==
    CASE k = 1 -> 10 * c[2] + c[1]
      [] k = 2 -> 0 - (10 * c[1] + c[2])
      [] k = 3 -> 100 * (c[1] + c[2]) + c[1]

RECURSIVE Sorted(_, _)
Sorted(k, S) ==
    IF S = {} THEN << >>
    ELSE LET first == CHOOSE c \in S :
                          \A d \in S : PlanKey(k, c) <= PlanKey(k, d)
         IN  << first >> \o Sorted(k, S \ { first })

TargetLists == [ k \in Plans |-> Sorted(k, TargetCoords) ]

\* The first `width` targets of plan k outside `fired`.
NextTargets(k, fired, width) ==
    LET left == SelectSeq(TargetLists[k], LAMBDA c : c \notin fired)
    IN  { left[i] : i \in 1..(IF Len(left) < width THEN Len(left) ELSE width) }

\* Strings that are no plain in-bounds coordinate.
OddMoves ==
    { EMPTY,
      << "A" >>,
      << "5" >>,
      << "A", "x" >>,
      << "!", "!" >>,
      << "A", "sup2" >>,
      << "A", "+", "1" >>,
      << "B", " ", "2" >>,
      << "A", "-", "1" >>,
      << "1", "5" >>,
      << "@", "0" >>,
      << "a", "0" >>,
      << "A", "0", "0" >>,
      << "A", "1", "0" >>,
      << "K", "0" >>,
      << "Z", "9" >> }

(***************************************************************************)
(* SpecGame: a placed BattleshipGame and a sequence of process_shot calls: *)
(* the next targets of the plan, any coordinate again, an odd string.      *)
(***************************************************************************)
\* The odd strings the calls are made with: one that int() refuses and two
\* coordinates off the board.
UnitOdd == { << "A", "x" >>, << "Z", "9" >>, << "A", "1", "0" >> }

UnitMoves(k, g) ==
    { CoordMove(c) : c \in NextTargets(k, g.opponent_shots, MaxSkip + 1) }
      \cup { CoordMove(c) : c \in g.opponent_shots }
      \cup UnitOdd

InitGame ==
    /\ InitProtocol(1, 1)
    /\ plan \in [ Peers \cup { "unit" } -> Plans ]
    /\ \A p \in Peers : plan[p] = 1
    /\ \E seed \in Seeds : unit = Fleets[seed]
    /\ ret = EMPTY

UnitShot(m) ==
    /\ LET r == process_shot(unit, m)
       IN  unit' = r.game /\ ret' = r.result
    /\ UNCHANGED << protocolVars, plan >>

NextGame == \E m \in UnitMoves(plan["unit"], unit) : UnitShot(m)

SpecGame == InitGame /\ [][NextGame]_vars

(***************************************************************************)
(* Claims about process_shot, checked in every state SpecGame reaches and  *)
(* for every string of ProbeMoves: the targets, three more coordinates of  *)
(* the board and the odd strings.                                          *)
(***************************************************************************)
ProbeCoords == TargetCoords \cup { Coord(0, 9), Coord(9, 0), Coord(5, 5) }

ProbeMoves == { CoordMove(c) : c \in ProbeCoords } \cup OddMoves

\* Every coordinate of the ship is in opponent_shots.
FullyShot(g, s) == g.ship_positions[s] \subseteq g.opponent_shots

\* The call completes ship s: it shoots the last unshot coordinate of s.
Completes(g, r, s) ==
    /\ g.ship_positions[s] # {}
    /\ ~FullyShot(g, s)
    /\ FullyShot(r.game, s)

\* C5: process_shot returns gameover on exactly the shot that completes the
\* last piece, the shot after which every piece of the fleet has all of its
\* coordinates shot, and on no other.
C5_GameoverOnLastPiece ==
    \A m \in ProbeMoves :
        LET r == process_shot(unit, m)
        IN  r.result = GAMEOVER
              <=> /\ \E s \in Range(ShipNames) : Completes(unit, r, s)
                  /\ \A s \in Range(ShipNames) : FullyShot(r.game, s)

\* C6: a sink outcome (hit-and-sunk or gameover) is returned exactly by the
\* shot that covers the last unshot coordinate of a placed piece; a new shot
\* at a piece that leaves it incomplete returns plain hit; opponent_shots
\* only grows, so a piece is completed once and never sinks again.
C6_SunkExactlyOnce ==
    \A m \in ProbeMoves :
        LET r == process_shot(unit, m)
            d == Decode(m)
        IN  /\ r.result \in { HIT_SUNK, GAMEOVER }
                 <=> \E s \in Range(ShipNames) : Completes(unit, r, s)
            /\ unit.opponent_shots \subseteq r.game.opponent_shots
            /\ \A s \in Range(ShipNames) :
                 ( /\ d.ok
                   /\ Coord(d.col, d.row) \in unit.ship_positions[s]
                   /\ Coord(d.col, d.row) \notin unit.opponent_shots
                   /\ ~FullyShot(r.game, s) )
                 => r.result = HIT

\* A ship has just been sunk, and a ship has been sunk at an earlier call:
\* three coordinates or more of sunk ships are shot besides the last.
C6_Witness ==
    /\ ret = HIT_SUNK
    /\ Cardinality(unit.sunk_ships) >= 2
    /\ \A s \in unit.sunk_ships : FullyShot(unit, s)

\* C7: for a coordinate whose column or row is outside [0, 10), process_shot
\* returns invalid and leaves opponent_shots, the board and sunk_ships (the
\* whole game) as they were.
C7_OutOfBoundsInvalid ==
    \A m \in ProbeMoves :
        LET d == Decode(m)
        IN  (d.ok /\ (d.col \notin Index \/ d.row \notin Index))
              => process_shot(unit, m) = [ game |-> unit, result |-> INVALID ]

\* A call has returned invalid in a game with shots taken.
C7_Witness ==
    /\ ret = INVALID
    /\ unit.opponent_shots # {}
    /\ unit.sunk_ships # {}

\* C8: for a coordinate already in opponent_shots, process_shot returns
\* repeat and leaves the game as it was, so that the same call again
\* returns repeat again.
C8_RepeatUnchanged ==
    \A m \in ProbeMoves :
        LET d == Decode(m)
            r == process_shot(unit, m)
        IN  (d.ok /\ Coord(d.col, d.row) \in unit.opponent_shots)
              => /\ r = [ game |-> unit, result |-> REPEAT ]
                 /\ process_shot(r.game, m) = r

\* A call has returned repeat, on a board with a hit and a miss.
C8_Witness ==
    /\ ret = REPEAT
    /\ \E c \in unit.opponent_shots : Cell(unit.board, c[2], c[1]) = "H"
    /\ \E c \in unit.opponent_shots : Cell(unit.board, c[2], c[1]) = "M"

\* C9: for a string that validate_move refuses, process_shot returns the
\* token invalid and leaves the game as it was; the string is never resolved
\* as a hit or a miss.
C9_BadFormatInvalid ==
    \A m \in ProbeMoves :
        ~validate_move(m)
          => process_shot(unit, m) = [ game |-> unit, result |-> INVALID ]

(***************************************************************************)
(* Spec: server.py and client.py over one connection.                      *)
(*                                                                         *)
(* The socket is a byte stream: recv(1024) returns what has arrived, the   *)
(* first message in flight or the first few run together, and never part   *)
(* of a message; recv blocks while nothing is in flight and the peer's     *)
(* socket is open, and returns "" once the peer has closed and nothing is  *)
(* left.  send blocks while MaxChan messages are in flight.  After the     *)
(* peer has closed, a send is either accepted by the system and lost or    *)
(* raises, and a recv with nothing left may raise (connection reset)       *)
(* instead.                                                                *)
(***************************************************************************)
Message(kind, text) == [ kind |-> kind, text |-> text ]

\* What a player types besides the targets: a string the prompt refuses, a
\* coordinate off the board, and a string the prompt accepts though int()
\* does not read it.
HumanOdd == { << "A", "x" >>, << "Z", "9" >>, << "A", "sup2" >> }

\* What the player at p may type at the prompt: the next target, the last
\* move again, or one of HumanOdd.
HumanMoves(p) ==
    { CoordMove(c) : c \in NextTargets(plan[p], game[p].shots, 1) }
      \cup { move[p] }
      \cup HumanOdd

\* The finally clause: the process closes its socket and ends.
Finish(p) ==
    /\ pc' = [ pc EXCEPT ![p] = "done" ]
    /\ closed' = [ closed EXCEPT ![p] = TRUE ]

\* An exception reaches main(): except Exception, then finally.
Raise(p) ==
    /\ Finish(p)
    /\ UNCHANGED << game, my_turn, move, data, result, inbox, rng, answered,
                    plan, unit, ret >>

CanSend(p) == closed[Other(p)] \/ Len(inbox[Other(p)]) < MaxChan

\* send() returning: the message is in flight, or lost when the peer closed.
Sent(p, msg) ==
    inbox' = [ inbox EXCEPT ![Other(p)] =
                 IF closed[Other(p)] THEN @ ELSE Append(@, msg) ]

\* recv() may return to p now.
CanRecv(p) == inbox[p] # << >> \/ closed[Other(p)]

\* How many messages a recv() of p may return now: 0 at the end of the
\* stream, and otherwise one or more of those in flight.
Chunks(p) == IF inbox[p] = << >> THEN { 0 } ELSE 1..Len(inbox[p])

\* The texts of the first k messages of q, run together.
RECURSIVE Joined(_, _)
Joined(q, k) ==
    IF k = 0 THEN EMPTY ELSE Joined(q, k - 1) \o q[k].text

\* What a recv() of k messages returns to p, and what it leaves in flight.
Received(p, k) == Joined(inbox[p], k)

Consumed(p, k) ==
    [ inbox EXCEPT ![p] = SubSeq(@, k + 1, Len(@)) ]

\* recv() raising ConnectionResetError: the peer is gone, nothing is left.
RecvReset(p) ==
    /\ pc[p] \in { "wait_result", "wait_move" }
    /\ inbox[p] = << >> /\ closed[Other(p)]
    /\ Raise(p)

\* send() raising BrokenPipeError: at a prompt whose move would be sent, or
\* in the answer to the opponent's move.
SendBroken(p) ==
    /\ pc[p] \in { "own", "resolve" }
    /\ closed[Other(p)]
    /\ Raise(p)

\* server.py line 35
ServerSendReady ==
    /\ pc["server"] = "accept"
    /\ CanSend("server")
    /\ Sent("server", Message("ready", READY))
    /\ pc' = [ pc EXCEPT !["server"] = "place" ]
    /\ UNCHANGED << game, my_turn, move, data, result, closed, rng, answered,
                    plan, unit, ret >>

\* client.py line 27: whatever arrives is taken for the ready signal.
ClientRecvReady ==
    /\ pc["client"] = "connect"
    /\ CanRecv("client")
    /\ \E k \in Chunks("client") : inbox' = Consumed("client", k)
    /\ pc' = [ pc EXCEPT !["client"] = "place" ]
    /\ UNCHANGED << game, my_turn, move, data, result, closed, rng, answered,
                    plan, unit, ret >>

\* The roles exchanged: my_turn = True in server.py, False in client.py.
PlaceShipsServerFirst(p) ==
    /\ pc[p] = "place"
    /\ game' = [ game EXCEPT ![p] = place_ships_randomly(NewGame, rng[p]) ]
    /\ my_turn' = [ my_turn EXCEPT ![p] = (p = "server") ]
    /\ pc' = [ pc EXCEPT ![p] = IF p = "server" THEN "own" ELSE "wait_move" ]
    /\ UNCHANGED << move, data, result, inbox, closed, rng, answered,
                    plan, unit, ret >>

\* server.py lines 38-41, client.py lines 30-35
PlaceShips(p) ==
    /\ pc[p] = "place"
    /\ game' = [ game EXCEPT ![p] = place_ships_randomly(NewGame, rng[p]) ]
    /\ my_turn' = [ my_turn EXCEPT ![p] = (p = "client") ]
    /\ pc' = [ pc EXCEPT ![p] = IF p = "client" THEN "own" ELSE "wait_move" ]
    /\ UNCHANGED << move, data, result, inbox, closed, rng, answered,
                    plan, unit, ret >>

\* The prompt loop and the send of the move:
\* server.py lines 70-77, client.py lines 45-52.
Prompt(p, m) ==
    /\ pc[p] = "own"
    /\ IF validate_move(m)
       THEN /\ CanSend(p)
            /\ Sent(p, Message("shot", m))
            /\ move' = [ move EXCEPT ![p] = m ]
            /\ pc' = [ pc EXCEPT ![p] = "wait_result" ]
            /\ UNCHANGED << game, my_turn, data, result, closed, rng, answered >>
       ELSE UNCHANGED protocolVars
    /\ UNCHANGED << plan, unit, ret >>

\* handle_move_result without line 204: the shot is not recorded.
handle_move_result_unrecorded(g, mv, res) ==
    IF res = EMPTY \/ res \in { INVALID, REPEAT }
    THEN [ raised |-> FALSE, game |-> g ]
    ELSE [ raised |-> ~int(Tail(mv)).ok, game |-> g ]

\* handle_move_result: the game after the call, or the exception of line 203.
handle_move_result(g, mv, res) ==
    IF res = EMPTY \/ res \in { INVALID, REPEAT }
    THEN [ raised |-> FALSE, game |-> g ]
    ELSE LET col == ord(upper(mv[1])) - ord("A")
             row == int(Tail(mv))
             c   == Coord(col, row.value)
         IN  IF ~row.ok THEN [ raised |-> TRUE, game |-> g ]
             ELSE [ raised |-> FALSE,
                    game   |-> [ g EXCEPT
                                   !.shots = @ \cup { c },
                                   !.hits  = IF Contains(res, HIT)
                                             THEN @ \cup { c } ELSE @ ] ]

\* The result of the own move:
\* server.py lines 80-96, client.py lines 53-69.
RecvResult(p) ==
    /\ pc[p] = "wait_result"
    /\ CanRecv(p)
    /\ \E k \in Chunks(p) :
       LET res == Received(p, k)
           h   == handle_move_result(game[p], move[p], res)
       IN  /\ inbox' = Consumed(p, k)
           /\ result' = [ result EXCEPT ![p] = res ]
           /\ IF res = REPEAT \/ res = INVALID
              THEN /\ pc' = [ pc EXCEPT ![p] = "own" ]
                   /\ UNCHANGED << game, my_turn, closed >>
              ELSE IF h.raised
              THEN /\ Finish(p)
                   /\ UNCHANGED << game, my_turn >>
              ELSE IF res = GAMEOVER
              THEN /\ game' = [ game EXCEPT ![p] = h.game ]
                   /\ Finish(p)
                   /\ UNCHANGED my_turn
              ELSE /\ game' = [ game EXCEPT ![p] = h.game ]
                   /\ my_turn' = [ my_turn EXCEPT ![p] = FALSE ]
                   /\ pc' = [ pc EXCEPT ![p] = "wait_move" ]
                   /\ UNCHANGED closed
    /\ UNCHANGED << move, data, rng, answered, plan, unit, ret >>

\* The opponent's move arrives: server.py lines 53-57, client.py lines 78-80
\* (and 98-100 at the end of the stream).
RecvMove(p) ==
    /\ pc[p] = "wait_move"
    /\ CanRecv(p)
    /\ \E k \in Chunks(p) :
         /\ inbox' = Consumed(p, k)
         /\ data' = [ data EXCEPT ![p] = Received(p, k) ]
         /\ IF k = 0
            THEN Finish(p)
            ELSE /\ pc' = [ pc EXCEPT ![p] = "resolve" ]
                 /\ UNCHANGED closed
    /\ answered' = [ answered EXCEPT ![p] = 0 ]
    /\ UNCHANGED << game, my_turn, move, result, rng, plan, unit, ret >>

\* What every answer does: handle_opponent_move and the send of its result.
Answer(p) ==
    /\ CanSend(p)
    /\ LET r == handle_opponent_move(game[p], data[p])
       IN  /\ game' = [ game EXCEPT ![p] = r.game ]
           /\ result' = [ result EXCEPT ![p] = r.result ]
           /\ Sent(p, Message("outcome", r.result))
    /\ answered' = [ answered EXCEPT ![p] = IF @ = 0 THEN 1 ELSE 2 ]

\* One pass of the while loop of server.py lines 58-66.
ServerResolve ==
    /\ pc["server"] = "resolve"
    /\ Answer("server")
    /\ LET res == handle_opponent_move(game["server"], data["server"]).result
       IN  IF res # GAMEOVER /\ (res = REPEAT \/ res = INVALID \/ res = EMPTY)
           THEN UNCHANGED << pc, my_turn >>
           ELSE /\ my_turn' = [ my_turn EXCEPT !["server"] = TRUE ]
                /\ pc' = [ pc EXCEPT !["server"] = "own" ]
    /\ UNCHANGED << move, data, closed, rng, plan, unit, ret >>

\* client.py lines 83-100, after the recv of the pass.
ClientResolve ==
    /\ pc["client"] = "resolve"
    /\ Answer("client")
    /\ LET res == handle_opponent_move(game["client"], data["client"]).result
       IN  IF res = REPEAT \/ res = INVALID
           THEN /\ pc' = [ pc EXCEPT !["client"] = "wait_move" ]
                /\ UNCHANGED << my_turn, closed >>
           ELSE IF res = GAMEOVER
           THEN /\ Finish("client")
                /\ UNCHANGED my_turn
           ELSE /\ my_turn' = [ my_turn EXCEPT !["client"] = TRUE ]
                /\ pc' = [ pc EXCEPT !["client"] = "own" ]
                /\ UNCHANGED closed
    /\ UNCHANGED << move, data, rng, plan, unit, ret >>

Init ==
    /\ \E s \in Seeds, c \in Seeds : InitProtocol(s, c)
    /\ plan = [ p \in Peers \cup { "unit" } |-> 1 ]
    /\ unit = NewGame
    /\ ret = EMPTY

Next ==
    \/ ServerSendReady
    \/ ClientRecvReady
    \/ ServerResolve
    \/ ClientResolve
    \/ \E p \in Peers : PlaceShips(p)
    \/ \E p \in Peers : \E m \in HumanMoves(p) : Prompt(p, m)
    \/ \E p \in Peers : RecvResult(p)
    \/ \E p \in Peers : RecvMove(p)
    \/ \E p \in Peers : RecvReset(p)
    \/ \E p \in Peers : SendBroken(p)

Spec == Init /\ [][Next]_vars

(***************************************************************************)
(* Claims about the two drivers.                                           *)
(***************************************************************************)
Defending(p) == pc[p] \in { "wait_move", "resolve" }

\* Every ship of p's fleet is sunk: p has resolved a shot as gameover.
Lost(p) == Cardinality(game[p].sunk_ships) = Len(ShipNames)

\* C1: a peer answers each shot it receives with exactly one outcome
\* message, sent before it sends a shot of its own.
C1_OneAnswerPerShot ==
    \A p \in Peers :
        /\ answered[p] <= 1
        /\ (pc[p] \in { "own", "wait_result" } /\ data[p] # EMPTY)
             => answered[p] = 1

\* C2: after it resolves a shot as invalid or repeat, the defending peer
\* waits for a newly received string; it does not resolve the answered
\* string again.
C2_RetryAwaitsNewMove ==
    \A p \in Peers :
        (Defending(p) /\ answered[p] >= 1 /\ result[p] \in { INVALID, REPEAT })
          => pc[p] = "wait_move"

\* C3: a peer that resolves a shot as gameover is in the terminal state: its
\* loop has ended, and it is never at its own move again.
C3_GameoverTerminal ==
    \A p \in Peers : Lost(p) => pc[p] = "done"

\* The shots p has sent that the opponent has not resolved: those in flight
\* and the one the opponent holds and has not yet passed to process_shot.
Unresolved(p) ==
    Len(SelectSeq(inbox[Other(p)], LAMBDA msg : msg.kind = "shot"))
      + (IF pc[Other(p)] = "resolve" /\ answered[Other(p)] = 0 THEN 1 ELSE 0)

\* C4: at most one shot is pending: sent and not yet resolved by its
\* receiver.
C4_OnePendingShot ==
    Unresolved("server") + Unresolved("client") <= 1

\* C10: a peer whose placement left a ship unplaced aborts before play: it
\* never sends a shot and never resolves one.
C10_PlacementFailedFatal ==
    \A p \in Peers :
        (pc[p] \notin { "accept", "connect", "place" }
           /\ \E s \in Range(ShipNames) : game[p].ship_positions[s] = {})
          => /\ pc[p] = "done"
             /\ move[p] = EMPTY
             /\ data[p] = EMPTY

\* The string a recv() returns to p in this step.
Reply(p) == Joined(inbox[p], Len(inbox[p]) - Len(inbox'[p]))

\* p receives the reply to its move in this step.
GetsReply(p) == pc[p] = "wait_result" /\ Len(inbox'[p]) < Len(inbox[p])

\* C11: at its own move a peer sends only a string that validate_move
\* accepts, and the reply decides what follows: invalid or repeat leave it at
\* its own move with shots and hits as they were; gameover ends its loop;
\* miss, hit and hit-and-sunk pass the turn, the coordinate fired at added
\* to shots.
C11_OwnMoveTransitions ==
    [][ \A p \in Peers :
          /\ (pc[p] = "own" /\ pc'[p] = "wait_result")
               => /\ validate_move(move'[p])
                  /\ inbox'[Other(p)] \in
                       { inbox[Other(p)],
                         Append(inbox[Other(p)], Message("shot", move'[p])) }
          /\ (GetsReply(p) /\ Reply(p) \in { INVALID, REPEAT })
               => /\ pc'[p] = "own"
                  /\ my_turn'[p]
                  /\ game'[p] = game[p]
          /\ (GetsReply(p) /\ Reply(p) = GAMEOVER) => pc'[p] = "done"
          /\ (GetsReply(p) /\ Reply(p) \in { MISS, HIT, HIT_SUNK })
               => /\ pc'[p] = "wait_move"
                  /\ ~my_turn'[p]
                  /\ Decode(move[p]).ok
                  /\ game'[p].shots =
                       game[p].shots
                         \cup { Coord(Decode(move[p]).col, Decode(move[p]).row) }
      ]_vars

\* A peer has passed the turn on the reply hit-and-sunk, the coordinate of
\* its move in its shots, after a retry earlier in the game.
C11_Witness ==
    \E p \in Peers :
        /\ pc[p] = "wait_move"
        /\ result[p] = HIT_SUNK
        /\ Coord(Decode(move[p]).col, Decode(move[p]).row) \in game[p].shots
        /\ Cardinality(game[p].shots) >= 5

\* The recv() p is blocked in returns the empty string in this step: nothing
\* is in flight and the opponent has closed its socket.
GetsEndOfStream(p) ==
    /\ pc[p] \in { "wait_result", "wait_move" }
    /\ inbox[p] = << >>
    /\ closed[Other(p)]
    /\ pc'[p] # pc[p]

\* C12: when the recv() a peer waits in, for the outcome of its shot or for
\* the opponent's shot, returns the empty string, its loop ends: no other
\* recv, no change of turn, no change of its records, no reply.
C12_EndOfStreamFatal ==
    [][ \A p \in Peers :
          GetsEndOfStream(p)
            => /\ pc'[p] = "done"
               /\ my_turn'[p] = my_turn[p]
               /\ game'[p] = game[p]
               /\ inbox' = inbox
      ]_vars

\* The strings process_shot returns for a move it has read.
OutcomeTokens == { INVALID, REPEAT, MISS, HIT, HIT_SUNK, GAMEOVER }

\* C13: when the reply to a peer's shot is a non-empty string that is none
\* of the outcome tokens, the session ends: the coordinate fired at enters
\* neither shots nor hits, and the turn does not pass.
C13_UnknownOutcomeFatal ==
    [][ \A p \in Peers :
          (GetsReply(p) /\ Reply(p) \notin OutcomeTokens)
            => /\ pc'[p] = "done"
               /\ game'[p].shots = game[p].shots
               /\ game'[p].hits = game[p].hits
               /\ my_turn'[p] = my_turn[p]
      ]_vars

\* The opponent of p has resolved a shot at c as a hit on one of its ships.
Struck(p, c) == Cell(game[Other(p)].board, c[2], c[1]) = "H"

\* C14: a peer's hits are those of its shots that struck a ship of the
\* opponent: hits is a subset of shots, and a coordinate of shots is in hits
\* exactly when the opponent resolved the shot at it as a hit (hit,
\* hit-and-sunk, or the last shot, answered gameover).
C14_HitsAreStruckShots ==
    \A p \in Peers :
        /\ game[p].hits \subseteq game[p].shots
        /\ \A c \in game[p].shots : c \in game[p].hits <=> Struck(p, c)

\* S is a run of n coordinates of the board in one row or one column.
IsRun(S, n) ==
    /\ Cardinality(S) = n
    /\ S \subseteq Index \X Index
    /\ \E c \in S :
         \/ S = { Coord(c[1] + i, c[2]) : i \in 0..(n - 1) }
         \/ S = { Coord(c[1], c[2] + i) : i \in 0..(n - 1) }

\* The draws an attempt may read: both orientations, raw values up to
\* MaxRaw.
MaxRaw == 12

DrawSamples ==
    { d \in [ horizontal : BOOLEAN, a : 0..MaxRaw, b : 0..MaxRaw ] : TRUE }

\* C15: after place_ships_randomly the ships' coordinate sets are pairwise
\* disjoint, and the set of every placed ship is a run of its declared
\* length: distinct coordinates of the board, contiguous in one row or one
\* column.  Where a peer is about to place, whatever an attempt draws gives
\* such a run.
C15_PlacementGeometry ==
    \A p \in Peers :
        /\ \A s, t \in Range(ShipNames) :
             s # t => game[p].ship_positions[s] \cap game[p].ship_positions[t] = {}
        /\ \A s \in Range(ShipNames) :
             \/ game[p].ship_positions[s] = {}
             \/ IsRun(game[p].ship_positions[s], ships[s])
        /\ pc[p] = "place"
             => \A d \in DrawSamples : \A s \in Range(ShipNames) :
                  IsRun(Positions(ships[s], d), ships[s])

\* Both peers have placed: one the fleet found after collisions, every ship
\* of it on the board, the other a fleet with a ship left out.
C15_Witness ==
    \E p \in Peers :
        /\ rng[p] = 2
        /\ pc[p] \in { "own", "wait_move" }
        /\ \A s \in Range(ShipNames) : game[p].ship_positions[s] # {}
        /\ pc[Other(p)] \in { "own", "wait_move" }
        /\ \E s \in Range(ShipNames) : game[Other(p)].ship_positions[s] = {}

\* C16: the server sends the ready token after accept() and before it
\* places its ships; the client takes the token off the channel before it
\* sends its first move; the first shot on the channel is the client's: the
\* client starts at its own move and the server waiting for one, and the
\* server sends no shot before it has resolved one.
C16_ReadyHandshake ==
    /\ pc["server"] = "accept"
         => /\ game["server"] = NewGame
            /\ inbox["client"] = << >>
            /\ pc["client"] = "connect"
    /\ pc["client"] = "connect"
         => /\ move["client"] = EMPTY
            /\ inbox["server"] = << >>
            /\ \/ pc["server"] = "accept"
               \/ inbox["client"] = << Message("ready", READY) >>
    /\ pc["client"] # "connect"
         => \A i \in DOMAIN inbox["client"] : inbox["client"][i].kind # "ready"
    /\ move["client"] = EMPTY
         => /\ pc["client"] \in { "connect", "place", "own" }
            /\ pc["server"] \in { "accept", "place", "wait_move" }
            /\ move["server"] = EMPTY
            /\ data["server"] = EMPTY
    /\ pc["server"] \in { "own", "wait_result" }
         => /\ data["server"] # EMPTY
            /\ answered["server"] >= 1
    /\ move["server"] # EMPTY => move["client"] # EMPTY

\* The server has sent a shot, after it resolved the client's first.
C16_Witness ==
    /\ pc["server"] = "wait_result"
    /\ move["server"] # EMPTY
    /\ Cardinality(game["server"].opponent_shots) = 1
    /\ game["server"].shots = {}
    /\ answered["server"] = 1

\* C17: where no message is in flight, each peer's shots are the other
\* peer's opponent_shots, and its hits are marked hit on the other peer's
\* board.
C17_RecordsConsistent ==
    (\A p \in Peers : inbox[p] = << >>)
      => \A p \in Peers :
           /\ game[p].shots = game[Other(p)].opponent_shots
           /\ \A c \in game[p].hits : Struck(p, c)

(***************************************************************************)
(* Claims about the board and sunk_ships, checked under SpecGame.          *)
(***************************************************************************)
Cells == Index \X Index

\* What the fleet and opponent_shots say the cell at c shows.
CellState(g, c) ==
    IF c \in Occupied(g)
    THEN IF c \in g.opponent_shots THEN "H" ELSE "S"
    ELSE IF c \in g.opponent_shots THEN "M" ELSE " "

CellsAgree(g) ==
    /\ DOMAIN g.board \subseteq Cells
    /\ \A c \in Cells : Cell(g.board, c[2], c[1]) = CellState(g, c)

\* The cells that differ between two boards; a cell marked in neither is
\* ' ' in both.
Changed(before, after) ==
    { c \in DOMAIN before \cup DOMAIN after :
        Cell(before, c[2], c[1]) # Cell(after, c[2], c[1]) }

\* C18: after placement and after every process_shot call each cell of the
\* board agrees with the fleet and opponent_shots: 'S' where a ship lies
\* unshot, 'H' where a ship lies shot, 'M' where no ship lies and a shot
\* fell, ' ' elsewhere; and a cell changes only in the call that adds its
\* coordinate to opponent_shots, hence at most once.
C18_BoardAgrees ==
    /\ []CellsAgree(unit)
    /\ [][ /\ unit.opponent_shots \subseteq unit'.opponent_shots
           /\ Changed(unit.board, unit'.board)
                \subseteq unit'.opponent_shots \ unit.opponent_shots
       ]_vars

\* The board shows all four kinds of cell after a call that returned miss.
C18_Witness ==
    /\ ret = MISS
    /\ \A mark \in { "S", "H", "M", " " } :
         \E c \in Cells : Cell(unit.board, c[2], c[1]) = mark
    /\ unit.sunk_ships # {}

\* The placed ships of g with every coordinate in opponent_shots.
FullyShotShips(g) ==
    { s \in Range(ShipNames) : g.ship_positions[s] # {} /\ FullyShot(g, s) }

\* C19: after any sequence of process_shot calls sunk_ships is the set of
\* the placed ships that are fully shot, and no call takes a ship out of it.
C19_SunkShipsExact ==
    /\ [](unit.sunk_ships = FullyShotShips(unit))
    /\ [][unit.sunk_ships \subseteq unit'.sunk_ships]_vars

\* One ship is sunk, another is hit and afloat, after a call that returned
\* hit.
C19_Witness ==
    /\ ret = HIT
    /\ unit.sunk_ships # {}
    /\ \E s \in Range(ShipNames) \ unit.sunk_ships :
         unit.ship_positions[s] \cap unit.opponent_shots # {}

\* The ships of p that place_ships_randomly left without coordinates.
Unplaced(p) == { s \in Range(ShipNames) : game[p].ship_positions[s] = {} }

\* p has placed its ships and is in the game loop or past it.
Placed(p) == pc[p] \notin { "accept", "connect", "place" }

\* C20: a peer whose place_ships_randomly left a ship unplaced goes on to
\* the game loop all the same; the ship is never in its sunk_ships, its
\* sunk_ships never holds the whole fleet, the process_shot call it is about
\* to make does not return gameover, and no gameover outcome of its is on
\* the channel.
C20_UnplacedNeverGameOver ==
    /\ [](\A p \in Peers :
            (Placed(p) /\ Unplaced(p) # {}) =>
                /\ Unplaced(p) \cap game[p].sunk_ships = {}
                /\ ~AllSunk(game[p])
                /\ pc[p] = "resolve" =>
                     process_shot(game[p], data[p]).result # GAMEOVER
                /\ \A i \in 1..Len(inbox[Other(p)]) :
                     inbox[Other(p)][i] # Message("outcome", GAMEOVER))
    /\ [][ \A p \in Peers :
             (pc[p] = "place" /\ pc'[p] # "place") =>
                 /\ pc'[p] \in { "own", "wait_move" }
                 /\ game'[p] = place_ships_randomly(NewGame, rng[p])
         ]_vars

\* A peer with an unplaced ship is in the game loop with every ship it
\* placed sunk, and its opponent has read the outcome of the last of them.
C20_Witness ==
    \E p \in Peers :
        /\ Unplaced(p) # {}
        /\ pc[p] \in { "own", "wait_result" }
        /\ AllSunkPlaced(game[p])
        /\ game[p].sunk_ships # {}
        /\ result[Other(p)] = HIT_SUNK

=============================================================================
